---- MODULE Spec2Model ----
(***************************************************************************)
(* Model of the NanoTrader / MatchX matching core: the per-symbol order    *)
(* book (src/src/core/order_book.cpp), the matching engine                  *)
(* (src/src/core/matching_engine.cpp), the object pool and the SPSC ring    *)
(* (src/include/nanotrader/memory).                                         *)
(*                                                                          *)
(* Order records live in pool slots and are referenced by pointer from the  *)
(* id map and from the intrusive level list.  The engine never keeps two    *)
(* pointers to one record outside the book that owns it, so a record is     *)
(* identified here by its id inside its book: orders_ holds the record, a   *)
(* level's queue holds the ids in list order (head first), and the pool is  *)
(* the number of free slots.                                                *)
(***************************************************************************)
EXTENDS Integers, Sequences, FiniteSets, TLC

(***************************************************************************)
(* Bounds of the model.                                                     *)
(***************************************************************************)
PoolSize == 3
NumIds == 2
MaxPrice == 2
MaxQty == 2
RingBits == 1
MaxSubmit == 3
\* threads sharing one pool of NumSlots slots, and values offered to one ring
NumThreads == 2
NumSlots == 2
MaxPush == 6
\* one pool seen from construction: pool_size up to MaxPoolSize, at most
\* MaxHeld objects allocated at a time
MaxPoolSize == 3
MaxHeld == 3

Ids == 1..NumIds
Prices == 1..MaxPrice
Quantities == 0..MaxQty
Symbols == {1}
\* cap of a level's cached total_quantity (it can run ahead of the queue)
MaxTotal == 2 * MaxQty

VARIABLES order_books_, order_allocator_, input_buffer_, output_buffer_,
          processed_orders_, submitted, pool_, ring_, arena_, call_

vars == <<order_books_, order_allocator_, input_buffer_, output_buffer_,
          processed_orders_, submitted, pool_, ring_, arena_, call_>>

\* the engine's state, left alone by the steps of SpecPool and SpecRing
engine_vars == <<order_books_, order_allocator_, input_buffer_,
                 output_buffer_, processed_orders_, submitted>>

(***************************************************************************)
(* Helpers for maps with a growing and shrinking key set                    *)
(* (std::unordered_map).                                                    *)
(***************************************************************************)
MapPut(f, k, v) == [x \in (DOMAIN f) \cup {k} |-> IF x = k THEN v ELSE f[x]]
MapErase(f, k) == [x \in (DOMAIN f) \ {k} |-> f[x]]
EmptyMap == [x \in {} |-> 0]

SeqRemove(s, e) == SelectSeq(s, LAMBDA x : x # e)

SetMax(S) == IF S = {} THEN 0 ELSE CHOOSE y \in S : \A z \in S : z <= y

SetMin(S) == IF S = {} THEN 0 ELSE CHOOSE y \in S : \A z \in S : y <= z

(***************************************************************************)
(* Order (nanotrader/core/order.hpp).                                       *)
(***************************************************************************)
Order(id, symbol, price, quantity, side, type, ioc, fok) ==
    [id |-> id, symbol |-> symbol, price |-> price, quantity |-> quantity,
     remaining_quantity |-> quantity, side |-> side, type |-> type,
     ioc |-> ioc, fok |-> fok]

is_buy(o) == o.side = "Buy"
is_sell(o) == o.side = "Sell"
is_market(o) == o.type = "Market"
is_ioc(o) == o.ioc
is_fok(o) == o.fok
is_filled(o) == o.remaining_quantity = 0

fill(o, fill_quantity) ==
    [o EXCEPT !.remaining_quantity = @ - fill_quantity]

(***************************************************************************)
(* PriceLevel: the intrusive FIFO list of one price, head first.            *)
(***************************************************************************)
NewPriceLevel == [price |-> 0, queue |-> <<>>, total_quantity |-> 0,
                  order_count |-> 0]

is_empty(level) == level.order_count = 0

level_add_order(level, o) ==
    [level EXCEPT !.queue = Append(@, o.id),
                  !.total_quantity = @ + o.remaining_quantity,
                  !.order_count = @ + 1]

level_remove_order(level, o) ==
    [level EXCEPT !.queue = SeqRemove(@, o.id),
                  !.total_quantity = @ - o.remaining_quantity,
                  !.order_count = @ - 1]

level_update_quantity(level, o, old_quantity) ==
    [level EXCEPT !.total_quantity = (@ - old_quantity) + o.remaining_quantity]

(***************************************************************************)
(* OrderBook.  arrival lists the resting ids oldest first: it stands for    *)
(* the order of the Order::timestamp values of the resting orders and is    *)
(* read by no operation.                                                    *)
(***************************************************************************)
NewOrderBook(symbol) ==
    [symbol_ |-> symbol, buy_levels_ |-> EmptyMap, sell_levels_ |-> EmptyMap,
     orders_ |-> EmptyMap, best_bid_ |-> 0, best_ask_ |-> 0,
     has_best_bid_ |-> FALSE, has_best_ask_ |-> FALSE, arrival |-> <<>>]

LevelAt(levels, price_raw) ==
    IF price_raw \in DOMAIN levels THEN levels[price_raw] ELSE NewPriceLevel

\* update_best_bid without "has_best_bid_ = found"
update_best_bid_keeps_flag(book) ==
    LET nonEmpty == {p \in DOMAIN book.buy_levels_ :
                        ~is_empty(book.buy_levels_[p])}
    IN [book EXCEPT !.best_bid_ = SetMax(nonEmpty)]

update_best_bid(book) ==
    LET nonEmpty == {p \in DOMAIN book.buy_levels_ :
                        ~is_empty(book.buy_levels_[p])}
    IN [book EXCEPT !.best_bid_ = SetMax(nonEmpty),
                    !.has_best_bid_ = (nonEmpty # {})]

\* update_best_ask that keeps the cached price and flag
update_best_ask_stale(book) == book

update_best_ask(book) ==
    LET nonEmpty == {p \in DOMAIN book.sell_levels_ :
                        ~is_empty(book.sell_levels_[p])}
    IN [book EXCEPT !.best_ask_ = SetMin(nonEmpty),
                    !.has_best_ask_ = (nonEmpty # {})]

\* cleanup_empty_level that never erases
cleanup_empty_level_skipped(levels, price_raw) == levels

cleanup_empty_level(levels, price_raw) ==
    IF price_raw \in DOMAIN levels /\ is_empty(levels[price_raw])
    THEN MapErase(levels, price_raw)
    ELSE levels

\* add_order without the lookup of the id
add_order_unchecked(book, o) ==
    LET b1 == [book EXCEPT !.orders_ = MapPut(@, o.id, o),
                           !.arrival = Append(SeqRemove(@, o.id), o.id)]
    IN [ok |-> TRUE,
        book |-> IF is_buy(o)
                 THEN [b1 EXCEPT !.buy_levels_ =
                         MapPut(@, o.price,
                                level_add_order([LevelAt(@, o.price)
                                                    EXCEPT !.price = o.price], o))]
                 ELSE [b1 EXCEPT !.sell_levels_ =
                         MapPut(@, o.price,
                                level_add_order([LevelAt(@, o.price)
                                                    EXCEPT !.price = o.price], o))]]

\* returns [ok, book]
add_order(book, o) ==
    IF o.id \in DOMAIN book.orders_
    THEN [ok |-> FALSE, book |-> book]
    ELSE
      LET b1 == [book EXCEPT !.orders_ = MapPut(@, o.id, o),
                             !.arrival = Append(@, o.id)]
      IN IF is_buy(o)
         THEN LET level == level_add_order(
                             [LevelAt(b1.buy_levels_, o.price)
                                 EXCEPT !.price = o.price], o)
                  b2 == [b1 EXCEPT !.buy_levels_ = MapPut(@, o.price, level)]
              IN [ok |-> TRUE,
                  book |-> IF ~b2.has_best_bid_ \/ o.price > b2.best_bid_
                           THEN [b2 EXCEPT !.best_bid_ = o.price,
                                           !.has_best_bid_ = TRUE]
                           ELSE b2]
         ELSE LET level == level_add_order(
                             [LevelAt(b1.sell_levels_, o.price)
                                 EXCEPT !.price = o.price], o)
                  b2 == [b1 EXCEPT !.sell_levels_ = MapPut(@, o.price, level)]
              IN [ok |-> TRUE,
                  book |-> IF ~b2.has_best_ask_ \/ o.price < b2.best_ask_
                           THEN [b2 EXCEPT !.best_ask_ = o.price,
                                           !.has_best_ask_ = TRUE]
                           ELSE b2]

\* orders_erase that leaves the id in the map
orders_erase_skipped(orders, order_id) == orders

\* orders_.erase(it)
orders_erase(orders, order_id) == MapErase(orders, order_id)

\* returns [ok, book]
\* remove_order that finds no order
remove_order_not_found(book, order_id) == [ok |-> FALSE, book |-> book]

remove_order(book, order_id) ==
    IF order_id \notin DOMAIN book.orders_
    THEN [ok |-> FALSE, book |-> book]
    ELSE
      LET o == book.orders_[order_id]
          b1 == [book EXCEPT !.orders_ = orders_erase(@, order_id),
                             !.arrival = SeqRemove(@, order_id)]
      IN IF is_buy(o)
         THEN LET level == level_remove_order(LevelAt(b1.buy_levels_, o.price), o)
                  b2 == [b1 EXCEPT !.buy_levels_ = MapPut(@, o.price, level)]
              IN [ok |-> TRUE,
                  book |->
                    IF is_empty(level)
                    THEN LET b3 == [b2 EXCEPT !.buy_levels_ =
                                      cleanup_empty_level(@, o.price)]
                         IN IF b3.has_best_bid_ /\ o.price = b3.best_bid_
                            THEN update_best_bid(b3)
                            ELSE b3
                    ELSE b2]
         ELSE LET level == level_remove_order(LevelAt(b1.sell_levels_, o.price), o)
                  b2 == [b1 EXCEPT !.sell_levels_ = MapPut(@, o.price, level)]
              IN [ok |-> TRUE,
                  book |->
                    IF is_empty(level)
                    THEN LET b3 == [b2 EXCEPT !.sell_levels_ =
                                      cleanup_empty_level(@, o.price)]
                         IN IF b3.has_best_ask_ /\ o.price = b3.best_ask_
                            THEN update_best_ask(b3)
                            ELSE b3
                    ELSE b2]

update_order_quantity(book, order_id, old_quantity) ==
    IF order_id \notin DOMAIN book.orders_
    THEN book
    ELSE
      LET o == book.orders_[order_id]
      IN IF is_buy(o)
         THEN [book EXCEPT !.buy_levels_ =
                 MapPut(@, o.price,
                        level_update_quantity(LevelAt(@, o.price), o, old_quantity))]
         ELSE [book EXCEPT !.sell_levels_ =
                 MapPut(@, o.price,
                        level_update_quantity(LevelAt(@, o.price), o, old_quantity))]

get_order(book, order_id) ==
    IF order_id \in DOMAIN book.orders_ THEN {book.orders_[order_id]} ELSE {}

get_best_bid(book) == IF book.has_best_bid_ THEN book.best_bid_ ELSE 0
get_best_ask(book) == IF book.has_best_ask_ THEN book.best_ask_ ELSE 0
has_best_bid(book) == book.has_best_bid_
has_best_ask(book) == book.has_best_ask_
get_order_count(book) == Cardinality(DOMAIN book.orders_)

\* std::sort with a.first > b.first, and with a.first < b.first
RECURSIVE SortDescending(_)
SortDescending(S) ==
    IF S = {} THEN <<>>
    ELSE <<SetMax(S)>> \o SortDescending(S \ {SetMax(S)})

RECURSIVE SortAscending(_)
SortAscending(S) ==
    IF S = {} THEN <<>>
    ELSE <<SetMin(S)>> \o SortAscending(S \ {SetMin(S)})

\* the first min(depth, size) entries of the sorted non-empty levels, each
\* <<price, total_quantity>>
TopLevels(levels, sorted, depth) ==
    [i \in 1..(IF depth <= Len(sorted) THEN depth ELSE Len(sorted)) |->
        <<sorted[i], levels[sorted[i]].total_quantity>>]

\* get_bid_levels sorting with the comparator of get_ask_levels
get_bid_levels_ascending(book, depth) ==
    TopLevels(book.buy_levels_,
              SortAscending({p \in DOMAIN book.buy_levels_ :
                                ~is_empty(book.buy_levels_[p])}),
              depth)

get_bid_levels(book, depth) ==
    TopLevels(book.buy_levels_,
              SortDescending({p \in DOMAIN book.buy_levels_ :
                                 ~is_empty(book.buy_levels_[p])}),
              depth)

get_ask_levels(book, depth) ==
    TopLevels(book.sell_levels_,
              SortAscending({p \in DOMAIN book.sell_levels_ :
                                ~is_empty(book.sell_levels_[p])}),
              depth)

(***************************************************************************)
(* MatchingEngine.  The pool order_allocator_ is the number of free slots:  *)
(* construct takes one (or fails at 0), destroy gives one back.             *)
(***************************************************************************)
Trade(maker_order_id, taker_order_id, symbol, price, quantity) ==
    [maker_order_id |-> maker_order_id, taker_order_id |-> taker_order_id,
     symbol |-> symbol, price |-> price, quantity |-> quantity]

MatchResult(status, order_id) ==
    [status |-> status, order_id |-> order_id, trades |-> <<>>]

Min(a, b) == IF a <= b THEN a ELSE b

\* get_or_create_book that keeps one book only
get_or_create_book_single(books, symbol) ==
    IF symbol \in DOMAIN books THEN books
    ELSE MapPut(EmptyMap, symbol, NewOrderBook(symbol))

get_or_create_book(books, symbol) ==
    IF symbol \in DOMAIN books THEN books
    ELSE MapPut(books, symbol, NewOrderBook(symbol))

\* buy_can_match with > in place of >=
buy_can_match_strict(buy_order, best_ask) ==
    is_market(buy_order) \/ buy_order.price > best_ask

\* if (buy_order->is_market() || buy_order->price >= best_ask)
buy_can_match(buy_order, best_ask) ==
    is_market(buy_order) \/ buy_order.price >= best_ask

\* if (sell_order->is_market() || sell_order->price <= best_bid)
sell_can_match(sell_order, best_bid) ==
    is_market(sell_order) \/ sell_order.price <= best_bid

\* the level's tail in place of its head
level_tail(level) == level.queue[Len(level.queue)]

\* level->head
level_head(level) == Head(level.queue)

\* buy_trade priced at the incoming order's price
buy_trade_at_taker_price(sell_order, buy_order, best_ask, fill_quantity) ==
    Trade(sell_order.id, buy_order.id, buy_order.symbol, buy_order.price,
          fill_quantity)

\* trades.emplace_back(...) of match_buy_order and of match_sell_order
buy_trade(sell_order, buy_order, best_ask, fill_quantity) ==
    Trade(sell_order.id, buy_order.id, buy_order.symbol, best_ask, fill_quantity)

sell_trade(buy_order, sell_order, best_bid, fill_quantity) ==
    Trade(buy_order.id, sell_order.id, sell_order.symbol, best_bid, fill_quantity)

\* The matching loops work on m = [book, order, trades, pool]: the book, the
\* incoming order, the trades emitted so far and the free slots of the pool.
\* One pass over a loop's condition and body returns [m, more]: more is
\* FALSE when the condition failed or the body left by break.
PassAgain(m) == [m |-> m, more |-> TRUE]
PassDone(m) == [m |-> m, more |-> FALSE]

match_buy_pass(m) ==
    LET book == m.book
        buy_order == m.order
    IN
    IF ~(buy_order.remaining_quantity > 0 /\ has_best_ask(book))
    THEN PassDone(m)
    ELSE
      LET best_ask == get_best_ask(book) IN
      IF ~buy_can_match(buy_order, best_ask) THEN PassDone(m)
      ELSE IF best_ask \notin DOMAIN book.sell_levels_
              \/ is_empty(book.sell_levels_[best_ask])
      THEN PassDone(m)
      ELSE IF book.sell_levels_[best_ask].queue = <<>>
      THEN PassDone(m)
      ELSE
        LET level == book.sell_levels_[best_ask]
            sell_id == level_head(level)
            sell_order == book.orders_[sell_id]
            fill_quantity == Min(buy_order.remaining_quantity,
                                 sell_order.remaining_quantity)
            trade == buy_trade(sell_order, buy_order, best_ask, fill_quantity)
            old_sell_qty == sell_order.remaining_quantity
            filled_sell == fill(sell_order, fill_quantity)
            filled_buy == fill(buy_order, fill_quantity)
            b1 == [book EXCEPT !.orders_[sell_id] = filled_sell]
        IN IF is_filled(filled_sell)
           THEN PassAgain([book |-> remove_order(b1, filled_sell.id).book,
                            order |-> filled_buy,
                            trades |-> Append(m.trades, trade),
                            pool |-> m.pool + 1])
           ELSE PassAgain([book |-> update_order_quantity(b1, filled_sell.id,
                                                           old_sell_qty),
                            order |-> filled_buy,
                            trades |-> Append(m.trades, trade),
                            pool |-> m.pool])

match_sell_pass(m) ==
    LET book == m.book
        sell_order == m.order
    IN
    IF ~(sell_order.remaining_quantity > 0 /\ has_best_bid(book))
    THEN PassDone(m)
    ELSE
      LET best_bid == get_best_bid(book) IN
      IF ~sell_can_match(sell_order, best_bid) THEN PassDone(m)
      ELSE IF best_bid \notin DOMAIN book.buy_levels_
              \/ is_empty(book.buy_levels_[best_bid])
      THEN PassDone(m)
      ELSE IF book.buy_levels_[best_bid].queue = <<>>
      THEN PassDone(m)
      ELSE
        LET level == book.buy_levels_[best_bid]
            buy_id == level_head(level)
            buy_order == book.orders_[buy_id]
            fill_quantity == Min(sell_order.remaining_quantity,
                                 buy_order.remaining_quantity)
            trade == sell_trade(buy_order, sell_order, best_bid, fill_quantity)
            old_buy_qty == buy_order.remaining_quantity
            filled_buy == fill(buy_order, fill_quantity)
            filled_sell == fill(sell_order, fill_quantity)
            b1 == [book EXCEPT !.orders_[buy_id] = filled_buy]
        IN IF is_filled(filled_buy)
           THEN PassAgain([book |-> remove_order(b1, filled_buy.id).book,
                            order |-> filled_sell,
                            trades |-> Append(m.trades, trade),
                            pool |-> m.pool + 1])
           ELSE PassAgain([book |-> update_order_quantity(b1, filled_buy.id,
                                                           old_buy_qty),
                            order |-> filled_sell,
                            trades |-> Append(m.trades, trade),
                            pool |-> m.pool])

\* the while loops: pass after pass until one does nothing
RECURSIVE match_buy_order(_)
match_buy_loop(pass) ==
    IF pass.more THEN match_buy_order(pass.m) ELSE pass.m
match_buy_order(m) == match_buy_loop(match_buy_pass(m))

RECURSIVE match_sell_order(_)
match_sell_loop(pass) ==
    IF pass.more THEN match_sell_order(pass.m) ELSE pass.m
match_sell_order(m) == match_sell_loop(match_sell_pass(m))

\* one pass of the loop the incoming order's side selects
match_iteration(m) ==
    IF is_buy(m.order) THEN match_buy_pass(m) ELSE match_sell_pass(m)

match_order(m) ==
    IF is_buy(m.order) THEN match_buy_order(m) ELSE match_sell_order(m)

\* construct that never returns null
pool_exhausted_ignored(pool) == FALSE

\* order_allocator_.construct(request.order) returns null: no free slot
pool_exhausted(pool) == pool = 0

\* order_rests that lets an IOC residual rest
order_rests_despite_ioc(order) ==
    order.remaining_quantity > 0 /\ ~is_fok(order)

\* order_rests that drops the residual of a partly filled order
order_rests_if_untouched(order) ==
    order.remaining_quantity = order.quantity /\ order.remaining_quantity > 0
        /\ ~is_ioc(order) /\ ~is_fok(order)

\* order_rests without the test of remaining_quantity
order_rests_even_empty(order) == ~is_ioc(order) /\ ~is_fok(order)

\* if (order->remaining_quantity > 0 && !order->is_ioc() && !order->is_fok())
order_rests(order) ==
    order.remaining_quantity > 0 /\ ~is_ioc(order) /\ ~is_fok(order)

\* The handlers return [books, pool, result, remaining]: the books and the
\* free slots after the request, its MatchResult, and (Add only) the incoming
\* order's remaining_quantity when matching ended.
process_add_order_finish(books1, symbol, crosses, m) ==
    LET status == IF crosses /\ m.trades # <<>> THEN "Matched" ELSE "Added"
        result == [status |-> status, order_id |-> m.order.id,
                   trades |-> m.trades]
    IN
    IF order_rests(m.order)
    THEN [books |-> [books1 EXCEPT ![symbol] = add_order(m.book, m.order).book],
          pool |-> m.pool, result |-> result,
          remaining |-> m.order.remaining_quantity]
    ELSE IF is_fok(m.order) /\ m.order.remaining_quantity > 0
    THEN [books |-> [books1 EXCEPT ![symbol] = m.book],
          pool |-> m.pool + 1,
          result |-> [result EXCEPT !.status = "Rejected", !.trades = <<>>],
          remaining |-> m.order.remaining_quantity]
    ELSE \* remaining_quantity = 0 or IOC
         [books |-> [books1 EXCEPT ![symbol] = m.book],
          pool |-> m.pool + 1, result |-> result,
          remaining |-> m.order.remaining_quantity]

\* the test in front of match_order
order_crosses(book, order) ==
    \/ is_market(order)
    \/ (is_buy(order) /\ has_best_ask(book)
        /\ order.price >= get_best_ask(book))
    \/ (is_sell(order) /\ has_best_bid(book)
        /\ order.price <= get_best_bid(book))

\* the loop's state when match_order is entered with a newly constructed order
match_begin(book, order, pool) ==
    [book |-> book, order |-> order, trades |-> <<>>, pool |-> pool - 1]

process_add_order(books, pool, request) ==
    LET symbol == request.order.symbol
        books1 == get_or_create_book(books, symbol)
        book == books1[symbol]
    IN
    IF pool_exhausted(pool)
    THEN [books |-> books1, pool |-> pool,
          result |-> MatchResult("Rejected", request.order.id),
          remaining |-> request.order.quantity]
    ELSE process_add_order_finish(books1, symbol,
             order_crosses(book, request.order),
             IF order_crosses(book, request.order)
             THEN match_order(match_begin(book, request.order, pool))
             ELSE match_begin(book, request.order, pool))

\* process_cancel_order without the lookup of the id
process_cancel_order_unchecked(books, pool, request) ==
    LET symbol == request.order.symbol
        books1 == get_or_create_book(books, symbol)
    IN [books |-> [books1 EXCEPT ![symbol] =
                      remove_order(books1[symbol], request.order.id).book],
        pool |-> pool + 1,
        result |-> MatchResult("Cancelled", request.order.id),
        remaining |-> 0]

process_cancel_order(books, pool, request) ==
    LET symbol == request.order.symbol
        books1 == get_or_create_book(books, symbol)
        book == books1[symbol]
    IN
    IF get_order(book, request.order.id) = {}
    THEN [books |-> books1, pool |-> pool,
          result |-> MatchResult("Rejected", request.order.id),
          remaining |-> 0]
    ELSE [books |-> [books1 EXCEPT ![symbol] =
                        remove_order(book, request.order.id).book],
          pool |-> pool + 1,
          result |-> MatchResult("Cancelled", request.order.id),
          remaining |-> 0]

\* process_modify_order that takes the order out and queues it again
process_modify_order_requeue(books, pool, request) ==
    LET symbol == request.order.symbol
        books1 == get_or_create_book(books, symbol)
        book == books1[symbol]
    IN IF get_order(book, request.order.id) = {}
       THEN [books |-> books1, pool |-> pool,
             result |-> MatchResult("Rejected", request.order.id),
             remaining |-> 0]
       ELSE [books |-> [books1 EXCEPT ![symbol] =
                          add_order(remove_order(book, request.order.id).book,
                                    [book.orders_[request.order.id] EXCEPT
                                        !.remaining_quantity = request.new_quantity,
                                        !.quantity = request.new_quantity]).book],
             pool |-> pool,
             result |-> MatchResult("Modified", request.order.id),
             remaining |-> 0]

\* process_modify_order without the new_quantity == 0 case
process_modify_order_no_zero_case(books, pool, request) ==
    LET symbol == request.order.symbol
        books1 == get_or_create_book(books, symbol)
        book == books1[symbol]
    IN IF get_order(book, request.order.id) = {}
       THEN [books |-> books1, pool |-> pool,
             result |-> MatchResult("Rejected", request.order.id),
             remaining |-> 0]
       ELSE [books |-> [books1 EXCEPT ![symbol] =
                          update_order_quantity(
                            [book EXCEPT !.orders_[request.order.id] =
                                [@ EXCEPT !.remaining_quantity = request.new_quantity,
                                          !.quantity = request.new_quantity]],
                            request.order.id,
                            book.orders_[request.order.id].remaining_quantity)],
             pool |-> pool,
             result |-> MatchResult("Modified", request.order.id),
             remaining |-> 0]

process_modify_order(books, pool, request) ==
    LET symbol == request.order.symbol
        books1 == get_or_create_book(books, symbol)
        book == books1[symbol]
    IN
    IF get_order(book, request.order.id) = {}
    THEN [books |-> books1, pool |-> pool,
          result |-> MatchResult("Rejected", request.order.id),
          remaining |-> 0]
    ELSE IF request.new_quantity = 0
    THEN [books |-> [books1 EXCEPT ![symbol] =
                        remove_order(book, request.order.id).book],
          pool |-> pool + 1,
          result |-> MatchResult("Cancelled", request.order.id),
          remaining |-> 0]
    ELSE
      LET order == book.orders_[request.order.id]
          old_quantity == order.remaining_quantity
          modified == [order EXCEPT !.remaining_quantity = request.new_quantity,
                                    !.quantity = request.new_quantity]
          b1 == [book EXCEPT !.orders_[order.id] = modified]
      IN [books |-> [books1 EXCEPT ![symbol] =
                        update_order_quantity(b1, order.id, old_quantity)],
          pool |-> pool,
          result |-> MatchResult("Modified", request.order.id),
          remaining |-> 0]

get_total_orders(books) ==
    Cardinality({<<sym, id>> \in (DOMAIN books) \X Ids :
                    id \in DOMAIN books[sym].orders_})

get_available_order_capacity(pool) == pool

process_request(books, pool, request) ==
    CASE request.type = "Add" -> process_add_order(books, pool, request)
      [] request.type = "Cancel" -> process_cancel_order(books, pool, request)
      [] request.type = "Modify" -> process_modify_order(books, pool, request)

(***************************************************************************)
(* SPSCRingBuffer<T, Size>, Size = 2^RingBits.  A slot whose value was      *)
(* moved out by try_pop holds NoItem.                                       *)
(***************************************************************************)
Size == 2 ^ RingBits
MASK == Size - 1
NoItem == [type |-> "None"]

NewRing == [head_ |-> 0, tail_ |-> 0, buffer_ |-> [i \in 0..MASK |-> NoItem],
            cached_head_ |-> 0, cached_tail_ |-> 0]

\* x & MASK for 0 <= x, MASK = 2^k - 1
BitAndMask(x) == x % Size

\* try_push that trusts cached_head_ and never reloads head_
try_push_no_refresh(ring, item) ==
    LET current_tail == ring.tail_
        next_tail == BitAndMask(current_tail + 1)
    IN IF next_tail = ring.cached_head_
       THEN [ok |-> FALSE, ring |-> ring]
       ELSE [ok |-> TRUE,
             ring |-> [ring EXCEPT !.buffer_[current_tail] = item,
                                   !.tail_ = next_tail]]

\* returns [ok, ring]
try_push(ring, item) ==
    LET current_tail == ring.tail_
        next_tail == BitAndMask(current_tail + 1)
        r1 == IF next_tail = ring.cached_head_
              THEN [ring EXCEPT !.cached_head_ = ring.head_]
              ELSE ring
    IN IF next_tail = r1.cached_head_
       THEN [ok |-> FALSE, ring |-> r1]
       ELSE [ok |-> TRUE,
             ring |-> [r1 EXCEPT !.buffer_[current_tail] = item,
                                 !.tail_ = next_tail]]

\* try_pop that does not advance head_
try_pop_keeps_head(ring) ==
    IF ring.head_ = ring.tail_
    THEN [ok |-> FALSE, ring |-> ring, item |-> NoItem]
    ELSE [ok |-> TRUE, ring |-> ring, item |-> ring.buffer_[ring.head_]]

\* returns [ok, ring, item]
try_pop(ring) ==
    LET current_head == ring.head_
        r1 == IF current_head = ring.cached_tail_
              THEN [ring EXCEPT !.cached_tail_ = ring.tail_]
              ELSE ring
    IN IF current_head = r1.cached_tail_
       THEN [ok |-> FALSE, ring |-> r1, item |-> NoItem]
       ELSE [ok |-> TRUE,
             ring |-> [r1 EXCEPT !.buffer_[current_head] = NoItem,
                                 !.head_ = BitAndMask(current_head + 1)],
             item |-> ring.buffer_[current_head]]

ring_empty(ring) == ring.head_ = ring.tail_
ring_full(ring) == BitAndMask(ring.tail_ + 1) = ring.head_
\* size() without the mask
ring_size_unmasked(ring) == ring.tail_ - ring.head_

ring_size(ring) == BitAndMask((ring.tail_ - ring.head_) + Size)
ring_capacity == Size - 1

(***************************************************************************)
(* The ring shared by one producer and one consumer, at the granularity of  *)
(* its atomic loads and stores.  The values pushed are 1, 2, ...; 0 is a    *)
(* slot that was never written or whose value was moved out.  ppc and cpc   *)
(* are the positions of the producer inside try_push and of the consumer    *)
(* inside try_pop; pushed and popped list the values of the calls that      *)
(* returned true.                                                           *)
(***************************************************************************)
NewSharedRing ==
    [head_ |-> 0, tail_ |-> 0, buffer_ |-> [i \in 0..MASK |-> 0],
     cached_head_ |-> 0, cached_tail_ |-> 0,
     ppc |-> "idle", current_tail |-> 0, next_tail |-> 0,
     cpc |-> "idle", current_head |-> 0, item |-> 0,
     pushed |-> <<>>, popped |-> <<>>]

(***************************************************************************)
(* PoolAllocator<T> shared by NumThreads callers, at the granularity of the *)
(* load of free_list_, the read of node->next and the compare-exchange.     *)
(* Slot 0 is the null pointer.  next[n] is the first word of slot n: the    *)
(* link while the slot is free, a word of the object while it is allocated. *)
(* held[t] is the set of slots allocate returned to thread t and that t has *)
(* not yet given back; node, desired and head are the locals of the call    *)
(* thread t is in, null outside a call.                                     *)
(***************************************************************************)
Slots == 1..NumSlots
Null == 0
Threads == 1..NumThreads

\* setup_free_list links every slot in front of the previous one
NewPool ==
    [free_list_ |-> NumSlots,
     next |-> [n \in Slots |-> n - 1],
     pc |-> [t \in Threads |-> "idle"],
     node |-> [t \in Threads |-> Null],
     desired |-> [t \in Threads |-> Null],
     head |-> [t \in Threads |-> Null],
     held |-> [t \in Threads |-> {}]]

(***************************************************************************)
(* PoolAllocator<T> from its construction, as byte counts: sizeof_T is      *)
(* sizeof(T), free is the number of nodes on the free list (what            *)
(* available_count walks) and held the number of slots allocate returned    *)
(* and deallocate has not yet taken back.                                   *)
(***************************************************************************)
ALIGNMENT == 64
HUGEPAGE_SIZE == 2097152
\* struct alignas(ALIGNMENT) FreeNode { FreeNode* next; }
sizeof_FreeNode == ALIGNMENT

\* (n + a - 1) & ~(a - 1), a a power of two
AlignUp(n, a) == ((n + a - 1) \div a) * a

Max(a, b) == IF a >= b THEN a ELSE b

\* static_assert(sizeof(T) >= sizeof(FreeNode*))
ObjectSizes == {8, 64, 65, 128, 129}
\* the last pool size makes pool_size * ALIGNMENT one huge page
PoolSizes == (0..MaxPoolSize) \cup {HUGEPAGE_SIZE \div ALIGNMENT}

obj_size(sizeof_T) == AlignUp(Max(sizeof_T, sizeof_FreeNode), ALIGNMENT)

\* the loop links one node per whole obj_size that fits before end; the
\* result is the length of the list it stores into free_list_
setup_free_list(current, chunk_size, size) ==
    current + (chunk_size \div size)

NoArena == [built |-> FALSE]

\* the constructor; chunk is FALSE when allocate_chunk returned nullptr
NewArena(pool_size, sizeof_T, chunk) ==
    [built |-> TRUE,
     sizeof_T |-> sizeof_T,
     pool_size_ |-> pool_size,
     chunk_size_ |-> pool_size * obj_size(sizeof_T),
     chunk |-> chunk,
     free |-> IF chunk
              THEN setup_free_list(0,
                       AlignUp(pool_size * obj_size(sizeof_T), HUGEPAGE_SIZE),
                       obj_size(sizeof_T))
              ELSE 0,
     held |-> 0]

available_count(arena) == arena.free
capacity(arena) == arena.pool_size_

(***************************************************************************)
(* Requests.                                                                *)
(***************************************************************************)
OrderRequest(type, order, new_quantity) ==
    [type |-> type, order |-> order, new_quantity |-> new_quantity]

Sides == {"Buy", "Sell"}
OrderTypes == {"Limit", "Market"}
\* <<ioc, fok>>: at most one flag is set
TimeInForce == {<<FALSE, FALSE>>, <<TRUE, FALSE>>, <<FALSE, TRUE>>}

AddRequests ==
    {OrderRequest("Add", Order(id, sym, p, q, sd, ty, tif[1], tif[2]), 0) :
        id \in Ids, sym \in Symbols, p \in Prices, q \in Quantities,
        sd \in Sides, ty \in OrderTypes, tif \in TimeInForce}

\* Cancel and Modify read only id and symbol of the order they carry.
KeyOrder(id, sym) == Order(id, sym, 0, 0, "Buy", "Limit", FALSE, FALSE)

CancelRequests ==
    {OrderRequest("Cancel", KeyOrder(id, sym), 0) : id \in Ids, sym \in Symbols}

ModifyRequests ==
    {OrderRequest("Modify", KeyOrder(id, sym), q) :
        id \in Ids, sym \in Symbols, q \in Quantities}

\* the matching thread outside process_orders
NotCalled == [pc |-> "idle"]

(***************************************************************************)
(* Spec: the request handlers applied one request at a time, as             *)
(* process_orders does while the result channel has room.                   *)
(***************************************************************************)
Init ==
    /\ order_books_ = EmptyMap
    /\ order_allocator_ = PoolSize
    /\ input_buffer_ = NewRing
    /\ output_buffer_ = NewRing
    /\ processed_orders_ = 0
    /\ submitted = 0
    /\ pool_ = NewPool
    /\ ring_ = NewSharedRing
    /\ arena_ = NoArena
    /\ call_ = NotCalled

\* Adds are handled while the cached level totals stay within MaxTotal.
TotalsBounded ==
    \A sym \in DOMAIN order_books_ :
        /\ \A p \in DOMAIN order_books_[sym].buy_levels_ :
              order_books_[sym].buy_levels_[p].total_quantity <= MaxTotal
        /\ \A p \in DOMAIN order_books_[sym].sell_levels_ :
              order_books_[sym].sell_levels_[p].total_quantity <= MaxTotal

\* the books and the pool after a handler returned out
HandlerReturns(out) ==
    /\ order_books_' = out.books
    /\ order_allocator_' = out.pool

Handle(request) ==
    /\ HandlerReturns(process_request(order_books_, order_allocator_, request))
    /\ UNCHANGED <<input_buffer_, output_buffer_, processed_orders_, submitted,
                   pool_, ring_, arena_, call_>>

ProcessAdd == TotalsBounded /\ \E request \in AddRequests : Handle(request)
ProcessCancel == \E request \in CancelRequests : Handle(request)
ProcessModify == \E request \in ModifyRequests : Handle(request)

clear_all_books ==
    /\ order_books_' = EmptyMap
    /\ processed_orders_' = 0
    /\ UNCHANGED <<order_allocator_, input_buffer_, output_buffer_, submitted,
                   pool_, ring_, arena_, call_>>

Next == ProcessAdd \/ ProcessCancel \/ ProcessModify \/ clear_all_books

Spec == Init /\ [][Next]_vars

(***************************************************************************)
(* SpecEngine: the engine behind its two channels.  A producer calls        *)
(* submit_order, the matching thread calls process_orders (the whole drain  *)
(* loop is one step), a consumer calls get_result.  submitted counts the    *)
(* submit_order calls and stops the producer at MaxSubmit.                  *)
(***************************************************************************)
EngineRequests ==
    {OrderRequest("Add", Order(id, 1, 1, 1, sd, "Limit", FALSE, FALSE), 0) :
        id \in Ids, sd \in Sides}
    \cup {OrderRequest("Cancel", KeyOrder(id, 1), 0) : id \in Ids}

submit_order(request) ==
    /\ submitted < MaxSubmit
    /\ submitted' = submitted + 1
    /\ input_buffer_' = try_push(input_buffer_, request).ring
    /\ UNCHANGED <<order_books_, order_allocator_, output_buffer_,
                   processed_orders_, pool_, ring_, arena_, call_>>

get_result ==
    /\ output_buffer_' = try_pop(output_buffer_).ring
    /\ UNCHANGED <<order_books_, order_allocator_, input_buffer_,
                   processed_orders_, submitted, pool_, ring_, arena_, call_>>

\* The loop of process_orders on e = [books, pool, input, output, processed]:
\* drain pops, drain_popped handles the request, drain_handled pushes the
\* result, drain_pushed counts it and loops, or breaks when the push failed.
RECURSIVE drain(_)
RECURSIVE drain_popped(_, _)
RECURSIVE drain_handled(_, _, _)
RECURSIVE drain_pushed(_, _, _, _)

\* drain_pushed that counts the request before looking at the push
drain_pushed_counts_failed(e, pop, out, push) ==
    IF ~push.ok
    THEN [books |-> out.books, pool |-> out.pool, input |-> pop.ring,
          output |-> push.ring, processed |-> e.processed + 1]
    ELSE drain([books |-> out.books, pool |-> out.pool, input |-> pop.ring,
                output |-> push.ring, processed |-> e.processed + 1])

drain_pushed(e, pop, out, push) ==
    IF ~push.ok
    THEN [books |-> out.books, pool |-> out.pool, input |-> pop.ring,
          output |-> push.ring, processed |-> e.processed]
    ELSE drain([books |-> out.books, pool |-> out.pool, input |-> pop.ring,
                output |-> push.ring, processed |-> e.processed + 1])

drain_handled(e, pop, out) ==
    drain_pushed(e, pop, out, try_push(e.output, out.result))

drain_popped(e, pop) ==
    IF ~pop.ok THEN [e EXCEPT !.input = pop.ring]
    ELSE drain_handled(e, pop, process_request(e.books, e.pool, pop.item))

drain(e) == drain_popped(e, try_pop(e.input))

\* the engine's state after the call
EngineBecomes(e) ==
    /\ order_books_' = e.books
    /\ order_allocator_' = e.pool
    /\ input_buffer_' = e.input
    /\ output_buffer_' = e.output
    /\ processed_orders_' = e.processed

process_orders ==
    /\ EngineBecomes(drain([books |-> order_books_, pool |-> order_allocator_,
                            input |-> input_buffer_, output |-> output_buffer_,
                            processed |-> processed_orders_]))
    /\ UNCHANGED <<submitted, pool_, ring_, arena_, call_>>

SubmitOrder == \E request \in EngineRequests : submit_order(request)

NextEngine == SubmitOrder \/ process_orders \/ get_result \/ clear_all_books

SpecEngine == Init /\ [][NextEngine]_vars

\* C3: when the egress channel is full no request is discarded and no result
\* is lost: a call of process_orders pushes one MatchResult to egress for
\* every request it removes from ingress.
C3_NoResultLost ==
    [][ring_size(input_buffer_') < ring_size(input_buffer_)
         => ring_size(input_buffer_) - ring_size(input_buffer_')
              = ring_size(output_buffer_') - ring_size(output_buffer_)]_vars

(***************************************************************************)
(* SpecLoop: process_orders one loop pass at a time.  call_ is the position *)
(* of the matching thread: idle outside process_orders, drain at the        *)
(* try_pop of the drain loop, match at the condition of the matching loop   *)
(* (m is the loop's state, passes the passes that emitted a trade, opposing *)
(* the orders resting on the other side when the loop was entered), push    *)
(* at the try_push of the result.  The producer calls submit_order only     *)
(* while the thread is outside process_orders; the consumer calls           *)
(* get_result at any time.                                                  *)
(***************************************************************************)
LoopRequests ==
    {OrderRequest("Add", Order(id, 1, 1, q, sd, ty, FALSE, FALSE), 0) :
        id \in Ids, q \in 1..MaxQty, sd \in Sides, ty \in OrderTypes}
    \cup {OrderRequest("Cancel", KeyOrder(id, 1), 0) : id \in Ids}

OpposingOrders(book, order) ==
    {id \in DOMAIN book.orders_ : book.orders_[id].side # order.side}

AtPush(result) == [pc |-> "push", result |-> result]

AtMatch(symbol, m) ==
    [pc |-> "match", symbol |-> symbol, m |-> m, passes |-> 0,
     opposing |-> Cardinality(OpposingOrders(m.book, m.order))]

\* the handler returned out: its result is pushed next
HandlerDone(out) ==
    /\ HandlerReturns(out)
    /\ call_' = AtPush(out.result)

\* process_add_order up to match_order
add_order_begins(books1, request) ==
    LET order == request.order
        book == books1[order.symbol]
    IN IF pool_exhausted(order_allocator_)
       THEN /\ order_books_' = books1
            /\ call_' = AtPush(MatchResult("Rejected", order.id))
            /\ UNCHANGED order_allocator_
       ELSE IF order_crosses(book, order)
       THEN /\ order_books_' = books1
            /\ call_' = AtMatch(order.symbol,
                                match_begin(book, order, order_allocator_))
            /\ UNCHANGED order_allocator_
       ELSE HandlerDone(process_add_order_finish(books1, order.symbol, FALSE,
                            match_begin(book, order, order_allocator_)))

\* while (input_buffer_.try_pop(request)) and the switch
request_popped(pop) ==
    /\ input_buffer_' = pop.ring
    /\ IF ~pop.ok
       THEN /\ call_' = NotCalled
            /\ UNCHANGED <<order_books_, order_allocator_>>
       ELSE IF pop.item.type = "Add"
       THEN add_order_begins(
                get_or_create_book(order_books_, pop.item.order.symbol),
                pop.item)
       ELSE HandlerDone(process_request(order_books_, order_allocator_,
                                        pop.item))

process_orders_called ==
    /\ call_.pc = "idle"
    /\ call_' = [pc |-> "drain"]
    /\ UNCHANGED <<engine_vars, pool_, ring_, arena_>>

drain_pass ==
    /\ call_.pc = "drain"
    /\ request_popped(try_pop(input_buffer_))
    /\ UNCHANGED <<output_buffer_, processed_orders_, submitted, pool_, ring_,
                   arena_>>

\* one pass of the matching loop, then the rest of process_add_order
pass_made(pass) ==
    IF pass.more
    THEN /\ call_' = [call_ EXCEPT !.m = pass.m, !.passes = @ + 1]
         /\ UNCHANGED <<order_books_, order_allocator_>>
    ELSE HandlerDone(process_add_order_finish(order_books_, call_.symbol,
                                              TRUE, pass.m))

match_pass ==
    /\ call_.pc = "match"
    /\ pass_made(match_iteration(call_.m))
    /\ UNCHANGED <<input_buffer_, output_buffer_, processed_orders_, submitted,
                   pool_, ring_, arena_>>

\* if (!output_buffer_.try_push(std::move(result))) break; fetch_add(1)
result_pushed(push) ==
    /\ output_buffer_' = push.ring
    /\ IF push.ok
       THEN /\ processed_orders_' = processed_orders_ + 1
            /\ call_' = [pc |-> "drain"]
       ELSE /\ call_' = NotCalled
            /\ UNCHANGED processed_orders_

push_pass ==
    /\ call_.pc = "push"
    /\ result_pushed(try_push(output_buffer_, call_.result))
    /\ UNCHANGED <<order_books_, order_allocator_, input_buffer_, submitted,
                   pool_, ring_, arena_>>

LoopSubmit ==
    /\ call_.pc = "idle"
    /\ \E request \in LoopRequests : submit_order(request)

\* the steps of the matching thread inside process_orders
InsideProcessOrders == drain_pass \/ match_pass \/ push_pass

NextLoop ==
    \/ LoopSubmit \/ get_result \/ process_orders_called
    \/ drain_pass \/ match_pass \/ push_pass

\* the matching thread keeps running
SpecLoop == Init /\ [][NextLoop]_vars /\ WF_vars(InsideProcessOrders)

(***************************************************************************)
(* SpecSymbols: the request handlers over two symbols, with plain Limit     *)
(* orders of one price and one quantity.                                    *)
(***************************************************************************)
TwoSymbols == {1, 2}

SymbolAddRequests ==
    {OrderRequest("Add", Order(id, sym, 1, 1, sd, "Limit", FALSE, FALSE), 0) :
        id \in Ids, sym \in TwoSymbols, sd \in Sides}

SymbolCancelRequests ==
    {OrderRequest("Cancel", KeyOrder(id, sym), 0) : id \in Ids, sym \in TwoSymbols}

SymbolModifyRequests ==
    {OrderRequest("Modify", KeyOrder(id, sym), q) :
        id \in Ids, sym \in TwoSymbols, q \in 0..1}

SymbolAdd == TotalsBounded /\ \E request \in SymbolAddRequests : Handle(request)
SymbolCancel == \E request \in SymbolCancelRequests : Handle(request)
SymbolModify == \E request \in SymbolModifyRequests : Handle(request)

NextSymbols == SymbolAdd \/ SymbolCancel \/ SymbolModify \/ clear_all_books

SpecSymbols == Init /\ [][NextSymbols]_vars

(***************************************************************************)
(* SpecRing: one producer inside try_push and one consumer inside try_pop,  *)
(* one atomic load, store or slot access per step.                          *)
(***************************************************************************)
\* the full test without the comparison
push_never_refused(next_tail, cached_head) == FALSE

\* if (next_tail == cached_head_) return false;
push_refused(next_tail, cached_head) == next_tail = cached_head

\* if (current_head == cached_tail_) return false;
pop_refused(current_head, cached_tail) == current_head = cached_tail

\* tail_.load(relaxed), next_tail, and the test against cached_head_
push_load_tail ==
    /\ ring_.ppc = "idle"
    /\ Len(ring_.pushed) < MaxPush
    /\ ring_' = [ring_ EXCEPT
                    !.current_tail = ring_.tail_,
                    !.next_tail = BitAndMask(ring_.tail_ + 1),
                    !.ppc = IF BitAndMask(ring_.tail_ + 1) = ring_.cached_head_
                            THEN "load_head" ELSE "construct"]
    /\ UNCHANGED <<engine_vars, pool_, arena_, call_>>

\* cached_head_ = head_.load(acquire), and the second test
push_load_head ==
    /\ ring_.ppc = "load_head"
    /\ ring_' = [ring_ EXCEPT
                    !.cached_head_ = ring_.head_,
                    !.ppc = IF push_refused(ring_.next_tail, ring_.head_)
                            THEN "idle" ELSE "construct"]
    /\ UNCHANGED <<engine_vars, pool_, arena_, call_>>

\* new (&buffer_[current_tail]) T(...)
push_construct ==
    /\ ring_.ppc = "construct"
    /\ ring_' = [ring_ EXCEPT
                    !.buffer_[ring_.current_tail] = Len(ring_.pushed) + 1,
                    !.ppc = "store_tail"]
    /\ UNCHANGED <<engine_vars, pool_, arena_, call_>>

\* tail_.store(next_tail, release); return true
push_store_tail ==
    /\ ring_.ppc = "store_tail"
    /\ ring_' = [ring_ EXCEPT
                    !.tail_ = ring_.next_tail,
                    !.pushed = Append(@, Len(@) + 1),
                    !.ppc = "idle"]
    /\ UNCHANGED <<engine_vars, pool_, arena_, call_>>

\* head_.load(relaxed) and the test against cached_tail_
pop_load_head ==
    /\ ring_.cpc = "idle"
    /\ ring_' = [ring_ EXCEPT
                    !.current_head = ring_.head_,
                    !.cpc = IF ring_.head_ = ring_.cached_tail_
                            THEN "load_tail" ELSE "move"]
    /\ UNCHANGED <<engine_vars, pool_, arena_, call_>>

\* cached_tail_ = tail_.load(acquire), and the second test
pop_load_tail ==
    /\ ring_.cpc = "load_tail"
    /\ ring_' = [ring_ EXCEPT
                    !.cached_tail_ = ring_.tail_,
                    !.cpc = IF pop_refused(ring_.current_head, ring_.tail_)
                            THEN "idle" ELSE "move"]
    /\ UNCHANGED <<engine_vars, pool_, arena_, call_>>

\* item = std::move(buffer_[current_head]); buffer_[current_head].~T()
pop_move ==
    /\ ring_.cpc = "move"
    /\ ring_' = [ring_ EXCEPT
                    !.item = ring_.buffer_[ring_.current_head],
                    !.buffer_[ring_.current_head] = 0,
                    !.cpc = "store_head"]
    /\ UNCHANGED <<engine_vars, pool_, arena_, call_>>

\* head_.store((current_head + 1) & MASK, release); return true
pop_store_head ==
    /\ ring_.cpc = "store_head"
    /\ ring_' = [ring_ EXCEPT
                    !.head_ = BitAndMask(ring_.current_head + 1),
                    !.popped = Append(@, ring_.item),
                    !.cpc = "idle"]
    /\ UNCHANGED <<engine_vars, pool_, arena_, call_>>

NextRing ==
    \/ push_load_tail \/ push_load_head \/ push_construct \/ push_store_tail
    \/ pop_load_head \/ pop_load_tail \/ pop_move \/ pop_store_head

SpecRing == Init /\ [][NextRing]_vars

(***************************************************************************)
(* SpecPool: NumThreads callers inside allocate and deallocate of one pool. *)
(* A compare_exchange_weak fails when free_list_ differs from the expected  *)
(* value, and may fail spuriously.  construct writes the object into the    *)
(* slot allocate returned, so the slot's first word becomes any value.      *)
(***************************************************************************)
\* FreeNode* node = free_list_.load();
allocate_load(t) ==
    /\ pool_.pc[t] = "idle"
    /\ pool_' = [pool_ EXCEPT !.node[t] = pool_.free_list_,
                              !.pc[t] = "allocate_test"]
    /\ UNCHANGED <<engine_vars, ring_, arena_, call_>>

\* while (node): return nullptr on null, else read node->next
allocate_next(t) ==
    /\ pool_.pc[t] = "allocate_test"
    /\ pool_' = IF pool_.node[t] = Null
                THEN [pool_ EXCEPT !.desired[t] = Null, !.pc[t] = "idle"]
                ELSE [pool_ EXCEPT !.desired[t] = pool_.next[pool_.node[t]],
                                   !.pc[t] = "allocate_cas"]
    /\ UNCHANGED <<engine_vars, ring_, arena_, call_>>

\* free_list_.compare_exchange_weak(node, node->next), return node, and the
\* caller's construct
allocate_cas(t, spurious, word) ==
    /\ pool_.pc[t] = "allocate_cas"
    /\ pool_' = IF pool_.free_list_ = pool_.node[t] /\ ~spurious
                THEN [pool_ EXCEPT !.free_list_ = pool_.desired[t],
                                   !.held[t] = @ \cup {pool_.node[t]},
                                   !.next[pool_.node[t]] = word,
                                   !.node[t] = Null,
                                   !.desired[t] = Null,
                                   !.pc[t] = "idle"]
                ELSE [pool_ EXCEPT !.node[t] = pool_.free_list_,
                                   !.pc[t] = "allocate_test"]
    /\ UNCHANGED <<engine_vars, ring_, arena_, call_>>

\* node = ptr; FreeNode* head = free_list_.load();
deallocate_load(t, ptr) ==
    /\ pool_.pc[t] = "idle"
    /\ ptr \in pool_.held[t]
    /\ pool_' = [pool_ EXCEPT !.node[t] = ptr,
                              !.head[t] = pool_.free_list_,
                              !.pc[t] = "deallocate_link"]
    /\ UNCHANGED <<engine_vars, ring_, arena_, call_>>

\* node->next = head;
deallocate_link(t) ==
    /\ pool_.pc[t] = "deallocate_link"
    /\ pool_' = [pool_ EXCEPT !.next[pool_.node[t]] = pool_.head[t],
                              !.pc[t] = "deallocate_cas"]
    /\ UNCHANGED <<engine_vars, ring_, arena_, call_>>

\* while (!free_list_.compare_exchange_weak(head, node))
deallocate_cas(t, spurious) ==
    /\ pool_.pc[t] = "deallocate_cas"
    /\ pool_' = IF pool_.free_list_ = pool_.head[t] /\ ~spurious
                THEN [pool_ EXCEPT !.free_list_ = pool_.node[t],
                                   !.held[t] = @ \ {pool_.node[t]},
                                   !.node[t] = Null,
                                   !.head[t] = Null,
                                   !.pc[t] = "idle"]
                ELSE [pool_ EXCEPT !.head[t] = pool_.free_list_,
                                   !.pc[t] = "deallocate_link"]
    /\ UNCHANGED <<engine_vars, ring_, arena_, call_>>

AllocateLoad == \E t \in Threads : allocate_load(t)
AllocateNext == \E t \in Threads : allocate_next(t)
AllocateCas ==
    \E t \in Threads, spurious \in BOOLEAN, word \in Slots \cup {Null} :
        allocate_cas(t, spurious, word)
DeallocateLoad == \E t \in Threads, ptr \in Slots : deallocate_load(t, ptr)
DeallocateLink == \E t \in Threads : deallocate_link(t)
DeallocateCas == \E t \in Threads, spurious \in BOOLEAN : deallocate_cas(t, spurious)

NextPool ==
    \/ AllocateLoad \/ AllocateNext \/ AllocateCas
    \/ DeallocateLoad \/ DeallocateLink \/ DeallocateCas

SpecPool == Init /\ [][NextPool]_vars

(***************************************************************************)
(* SpecArena: one pool is constructed, then one caller allocates and        *)
(* deallocates.                                                             *)
(***************************************************************************)
PoolAllocator ==
    /\ ~arena_.built
    /\ \E pool_size \in PoolSizes, sizeof_T \in ObjectSizes, chunk \in BOOLEAN :
          arena_' = NewArena(pool_size, sizeof_T, chunk)
    /\ UNCHANGED <<engine_vars, pool_, ring_, call_>>

\* allocate with a non-empty free list (an empty one returns nullptr and
\* changes nothing)
arena_allocate ==
    /\ arena_.built
    /\ arena_.free > 0
    /\ arena_.held < MaxHeld
    /\ arena_' = [arena_ EXCEPT !.free = @ - 1, !.held = @ + 1]
    /\ UNCHANGED <<engine_vars, pool_, ring_, call_>>

\* deallocate of a pointer allocate returned
arena_deallocate ==
    /\ arena_.built
    /\ arena_.held > 0
    /\ arena_' = [arena_ EXCEPT !.free = @ + 1, !.held = @ - 1]
    /\ UNCHANGED <<engine_vars, pool_, ring_, call_>>

NextArena == PoolAllocator \/ arena_allocate \/ arena_deallocate

SpecArena == Init /\ [][NextArena]_vars

(***************************************************************************)
(* Observations of a book used by the properties.                           *)
(***************************************************************************)
RECURSIVE SeqSum(_)
SeqSum(s) == IF s = <<>> THEN 0 ELSE Head(s) + SeqSum(Tail(s))

Books == {order_books_[sym] : sym \in DOMAIN order_books_}

BuyLevels(book) == {book.buy_levels_[p] : p \in DOMAIN book.buy_levels_}
SellLevels(book) == {book.sell_levels_[p] : p \in DOMAIN book.sell_levels_}
Levels(book) == BuyLevels(book) \cup SellLevels(book)

\* sum of remaining_quantity over the orders queued at a level
QueuedQuantity(book, level) ==
    SeqSum([i \in 1..Len(level.queue) |->
               book.orders_[level.queue[i]].remaining_quantity])

NonEmptyBidPrices(book) ==
    {p \in DOMAIN book.buy_levels_ : book.buy_levels_[p].queue # <<>>}
NonEmptyAskPrices(book) ==
    {p \in DOMAIN book.sell_levels_ : book.sell_levels_[p].queue # <<>>}

\* C1: every non-empty price level's total_quantity equals the sum of
\* remaining_quantity over the orders queued at that level.
C1_LevelTotalIsQueueSum ==
    \A book \in Books : \A level \in Levels(book) :
        level.queue # <<>> => level.total_quantity = QueuedQuantity(book, level)

\* C5: each book is non-crossed: when a best bid and a best ask both exist,
\* best_bid < best_ask, and no resting bid price is greater than or equal to
\* any resting ask price.
C5_NonCrossed ==
    \A book \in Books :
        /\ (has_best_bid(book) /\ has_best_ask(book))
              => get_best_bid(book) < get_best_ask(book)
        /\ \A b, a \in DOMAIN book.orders_ :
              (is_buy(book.orders_[b]) /\ is_sell(book.orders_[a]))
                 => book.orders_[b].price < book.orders_[a].price

C5_Witness ==
    \E book \in Books :
        /\ has_best_bid(book) /\ has_best_ask(book)
        /\ \E id \in DOMAIN book.orders_ : is_market(book.orders_[id])

\* C6: has_best_bid() is true exactly when some bid level is non-empty and
\* then get_best_bid() is the maximum price over the non-empty bid levels;
\* symmetrically has_best_ask() / get_best_ask() with the minimum over the
\* non-empty ask levels.
C6_BestPrices ==
    \A book \in Books :
        /\ has_best_bid(book) <=> (NonEmptyBidPrices(book) # {})
        /\ has_best_bid(book) =>
              /\ get_best_bid(book) \in NonEmptyBidPrices(book)
              /\ \A p \in NonEmptyBidPrices(book) : p <= get_best_bid(book)
        /\ has_best_ask(book) <=> (NonEmptyAskPrices(book) # {})
        /\ has_best_ask(book) =>
              /\ get_best_ask(book) \in NonEmptyAskPrices(book)
              /\ \A p \in NonEmptyAskPrices(book) : get_best_ask(book) <= p

\* two bid levels rest and the best bid is the higher one
C6_Witness ==
    \E book \in Books :
        /\ Cardinality(NonEmptyBidPrices(book)) >= 2
        /\ \E p \in NonEmptyBidPrices(book) : p < get_best_bid(book)

\* C7: every order of the id map is queued in exactly one price level, on
\* the order's side and at the order's price, and get_order(id) returns it;
\* every queued order is in the id map, so get_order_count equals the number
\* of queued orders.
Occurrences(book, id) ==
    {<<sd, p, i>> \in {"Buy", "Sell"} \X Prices \X (1..NumIds) :
        LET levels == IF sd = "Buy" THEN book.buy_levels_ ELSE book.sell_levels_
        IN /\ p \in DOMAIN levels
           /\ i \in 1..Len(levels[p].queue)
           /\ levels[p].queue[i] = id}

QueuedCount(book) ==
    SeqSum([i \in 1..(2 * MaxPrice) |->
        LET levels == IF i <= MaxPrice THEN book.buy_levels_ ELSE book.sell_levels_
            p == IF i <= MaxPrice THEN i ELSE i - MaxPrice
        IN IF p \in DOMAIN levels THEN Len(levels[p].queue) ELSE 0])

C7_OrdersInOneLevel ==
    \A book \in Books :
        /\ \A id \in DOMAIN book.orders_ :
              LET o == book.orders_[id]
              IN /\ o.id = id
                 /\ get_order(book, id) = {o}
                 /\ \E i \in 1..NumIds : Occurrences(book, id) = {<<o.side, o.price, i>>}
        /\ \A id \in Ids : Occurrences(book, id) # {} => id \in DOMAIN book.orders_
        /\ get_order_count(book) = QueuedCount(book)

C7_Witness ==
    \E book \in Books :
        /\ get_order_count(book) >= 2
        /\ \E p \in DOMAIN book.sell_levels_ : Len(book.sell_levels_[p].queue) >= 2

(***************************************************************************)
(* Properties of one request, stated over every request the alphabet holds  *)
(* at every reachable state of the books and the pool.                      *)
(***************************************************************************)
RECURSIVE SetSum(_, _)
SetSum(f, S) == IF S = {} THEN 0
                ELSE LET x == CHOOSE y \in S : TRUE
                     IN f[x] + SetSum(f, S \ {x})

BookOrNew(books, symbol) ==
    IF symbol \in DOMAIN books THEN books[symbol] ELSE NewOrderBook(symbol)

IncomingOrders == {request.order : request \in AddRequests}

\* ids resting on the side opposite to the incoming order
OppositeIds(book, order) ==
    {id \in DOMAIN book.orders_ : book.orders_[id].side # order.side}

PriceCrosses(order, resting) ==
    \/ is_market(order)
    \/ is_buy(order) /\ order.price >= resting.price
    \/ is_sell(order) /\ order.price <= resting.price

CrossableIds(book, order) ==
    {id \in OppositeIds(book, order) : PriceCrosses(order, book.orders_[id])}

RemainingOf(book, ids) ==
    SetSum([id \in ids |-> book.orders_[id].remaining_quantity], ids)

TradedQuantity(trades) ==
    SeqSum([i \in 1..Len(trades) |-> trades[i].quantity])

\* C2: an Add of a FOK order that the crossable opposing liquidity cannot
\* fill completely returns Rejected with no trades and leaves the book
\* unchanged (orders, remaining quantities, levels, queues, best prices).
C2_FokUnfillableNoEffect ==
    \A request \in AddRequests :
        LET order == request.order
            book == BookOrNew(order_books_, order.symbol)
            out == process_add_order(order_books_, order_allocator_, request)
        IN (is_fok(order)
              /\ order.quantity > RemainingOf(book, CrossableIds(book, order)))
           => /\ out.result.status = "Rejected"
              /\ out.result.trades = <<>>
              /\ out.books[order.symbol] = book

\* C4: an Add whose order id already rests in the addressed book is
\* Rejected, and the book's id map, levels and best prices stay as they were.
C4_DuplicateIdRejected ==
    \A request \in AddRequests :
        LET order == request.order
            book == BookOrNew(order_books_, order.symbol)
            out == process_add_order(order_books_, order_allocator_, request)
        IN order.id \in DOMAIN book.orders_
           => /\ out.result.status = "Rejected"
              /\ out.books[order.symbol] = book

\* position of a resting order in arrival order
ArrivalIndex(book, id) ==
    CHOOSE i \in 1..Len(book.arrival) : book.arrival[i] = id

\* resting order a has priority over resting order b of the same side
Before(book, a, b) ==
    LET oa == book.orders_[a]
        ob == book.orders_[b]
    IN \/ is_sell(oa) /\ oa.price < ob.price
       \/ is_buy(oa) /\ oa.price > ob.price
       \/ oa.price = ob.price /\ ArrivalIndex(book, a) < ArrivalIndex(book, b)

Matched(book, order) ==
    match_order([book |-> book, order |-> order, trades |-> <<>>,
                 pool |-> order_allocator_])

\* C8: price-time priority.  The makers of the trades of one incoming order
\* are resting orders of the opposite side, listed best price first and in
\* arrival order within a price; no resting order with priority over a maker
\* is skipped, and every maker but the last is filled completely before the
\* next one trades.
C8_PriceTimePriority ==
    \A book \in Books : \A order \in IncomingOrders :
        LET trades == Matched(book, order).trades
            n == Len(trades)
            maker(i) == trades[i].maker_order_id
        IN /\ \A i \in 1..n : maker(i) \in OppositeIds(book, order)
           /\ \A i, j \in 1..n : i < j => Before(book, maker(i), maker(j))
           /\ \A i \in 1..n : \A x \in OppositeIds(book, order) :
                 Before(book, x, maker(i)) => \E j \in 1..(i - 1) : maker(j) = x
           /\ \A i \in 1..(n - 1) :
                 trades[i].quantity = book.orders_[maker(i)].remaining_quantity

\* two orders of one price level are filled by one incoming order
C8_Witness ==
    \E book \in Books : \E order \in IncomingOrders :
        LET trades == Matched(book, order).trades
        IN /\ Len(trades) = 2
           /\ trades[1].price = trades[2].price
           /\ trades[1].maker_order_id # trades[2].maker_order_id

\* C9: every trade executes at the resting (maker) order's price; for a
\* Limit taker the price is no worse than its limit.
C9_TradeAtMakerPrice ==
    \A book \in Books : \A order \in IncomingOrders :
        LET trades == Matched(book, order).trades
        IN \A i \in 1..Len(trades) :
              /\ trades[i].maker_order_id \in DOMAIN book.orders_
              /\ trades[i].price = book.orders_[trades[i].maker_order_id].price
              /\ (~is_market(order) /\ is_buy(order)) => trades[i].price <= order.price
              /\ (~is_market(order) /\ is_sell(order)) => trades[i].price >= order.price

\* a Limit buy trades below its limit
C9_Witness ==
    \E book \in Books : \E order \in IncomingOrders :
        LET trades == Matched(book, order).trades
        IN /\ ~is_market(order) /\ is_buy(order)
           /\ trades # <<>>
           /\ trades[1].price < order.price

\* C10: for an Add whose order crosses the book, the trade quantities of its
\* MatchResult add up to the filled portion of the incoming order (original
\* minus remaining after matching) and to the quantity taken from the resting
\* orders of the opposite side.
C10_TradedEqualsFilled ==
    \A request \in AddRequests :
        LET order == request.order
            book == BookOrNew(order_books_, order.symbol)
            out == process_add_order(order_books_, order_allocator_, request)
            after == out.books[order.symbol]
            opposite == OppositeIds(book, order)
            left == {id \in opposite : id \in DOMAIN after.orders_
                                        /\ after.orders_[id].side # order.side}
        IN (order.quantity > 0 /\ CrossableIds(book, order) # {})
           => /\ TradedQuantity(out.result.trades) = order.quantity - out.remaining
              /\ TradedQuantity(out.result.trades)
                    = RemainingOf(book, opposite) - RemainingOf(after, left)

(***************************************************************************)
(* Time in force, pool exhaustion and unknown ids.                          *)
(***************************************************************************)
\* C11: an Add of an IOC order that gets a pool slot returns Matched when at
\* least one fill occurred and Rejected when no fill occurred.
C11_IocStatus ==
    \A request \in AddRequests :
        LET order == request.order
            out == process_add_order(order_books_, order_allocator_, request)
        IN (is_ioc(order) /\ order_allocator_ > 0)
           => out.result.status = IF out.result.trades # <<>>
                                  THEN "Matched" ELSE "Rejected"

C17_PoolExhaustedRejects ==
    \A request \in AddRequests :
        LET out == process_add_order(order_books_, order_allocator_, request)
        IN get_available_order_capacity(order_allocator_) = 0
           => /\ out.result.status = "Rejected"
              /\ out.result.trades = <<>>
              /\ get_available_order_capacity(out.pool) = 0
              /\ \A sym \in DOMAIN out.books :
                    out.books[sym] = BookOrNew(order_books_, sym)

\* the pool is exhausted and an incoming order would cross the book
C17_Witness ==
    /\ order_allocator_ = 0
    /\ \E request \in AddRequests :
          LET order == request.order
              book == BookOrNew(order_books_, order.symbol)
          IN order.quantity > 0 /\ ~is_market(order)
             /\ CrossableIds(book, order) # {}

\* C18: a Cancel or a Modify whose id does not rest in the book of the
\* request's symbol returns Rejected with no trades and leaves every book
\* and the pool's free slots as they were.
C18_UnknownIdRejected ==
    \A request \in SymbolCancelRequests \cup SymbolModifyRequests :
        LET order == request.order
            book == BookOrNew(order_books_, order.symbol)
            out == process_request(order_books_, order_allocator_, request)
        IN order.id \notin DOMAIN book.orders_
           => /\ out.result.status = "Rejected"
              /\ out.result.trades = <<>>
              /\ out.pool = order_allocator_
              /\ \A sym \in DOMAIN out.books :
                    out.books[sym] = BookOrNew(order_books_, sym)

\* an id rests under symbol 2 and not under symbol 1, whose book holds
\* another order
C18_Witness ==
    /\ DOMAIN order_books_ = TwoSymbols
    /\ \E id \in Ids :
          /\ id \in DOMAIN order_books_[2].orders_
          /\ id \notin DOMAIN order_books_[1].orders_
          /\ order_books_[1].orders_ # EmptyMap

\* C19: order records are conserved: the free slots of the pool and the
\* orders resting in the books add up to the pool's initial free slots.
C19_RecordsConserved ==
    get_available_order_capacity(order_allocator_)
        + get_total_orders(order_books_) = PoolSize

\* what C20 says of one Add of a plain Limit order
PlainLimitAdd(request) ==
    /\ ~is_market(request.order) /\ ~is_ioc(request.order)
    /\ ~is_fok(request.order)
    /\ request.order.id
          \notin DOMAIN BookOrNew(order_books_, request.order.symbol).orders_
    /\ order_allocator_ > 0

PlainLimitOutcome(request) ==
    LET order == request.order
        book == BookOrNew(order_books_, order.symbol)
        out == process_add_order(order_books_, order_allocator_, request)
        after == out.books[order.symbol]
        filled == TradedQuantity(out.result.trades)
        rests(quantity) ==
            /\ get_order(after, order.id)
                  = {[order EXCEPT !.remaining_quantity = quantity]}
            /\ \E i \in 1..NumIds :
                  Occurrences(after, order.id) = {<<order.side, order.price, i>>}
            /\ out.pool + get_order_count(after)
                  = order_allocator_ + get_order_count(book)
        destroyed ==
            /\ get_order(after, order.id) = {}
            /\ Occurrences(after, order.id) = {}
            /\ out.pool + get_order_count(after)
                  = order_allocator_ + get_order_count(book)
    IN IF out.result.trades = <<>>
       THEN out.result.status = "Added" /\ rests(order.quantity)
       ELSE /\ out.result.status = "Matched"
            /\ filled <= order.quantity
            /\ IF filled < order.quantity
               THEN rests(order.quantity - filled)
               ELSE destroyed

\* C20 as stated: for an Add of a plain Limit order with a fresh id and a
\* free pool slot, no fill gives Added and the order rests with its full
\* quantity; a fill gives Matched, a residual rests with remaining =
\* original - filled, and a fully filled order does not rest and is
\* destroyed.
C20_PlainLimitAdd ==
    \A request \in AddRequests :
        PlainLimitAdd(request) => PlainLimitOutcome(request)

\* C20 amended: the same for an order of quantity > 0.
C20_PlainLimitAddPositive ==
    \A request \in AddRequests :
        (PlainLimitAdd(request) /\ request.order.quantity > 0)
           => PlainLimitOutcome(request)

\* a plain Limit order with a fresh id is filled in part and its residual
\* rests
C20_Witness ==
    \E request \in AddRequests :
        LET out == process_add_order(order_books_, order_allocator_, request)
        IN /\ PlainLimitAdd(request)
           /\ out.result.trades # <<>>
           /\ out.remaining > 0

(***************************************************************************)
(* The shared pool and the shared ring.                                     *)
(***************************************************************************)
\* slots linked from free_list_, following at most NumSlots links
RECURSIVE FreeListFrom(_, _)
FreeListFrom(node, links) ==
    IF node = Null \/ links = 0 THEN {}
    ELSE {node} \cup FreeListFrom(pool_.next[node], links - 1)

\* C13: with two or more threads interleaving allocate and deallocate on
\* one pool, no slot is held by two callers at once and the free list holds
\* no slot that is allocated.
C13_PoolThreadSafe ==
    /\ \A t1, t2 \in Threads :
          t1 # t2 => pool_.held[t1] \cap pool_.held[t2] = {}
    /\ \A t \in Threads :
          FreeListFrom(pool_.free_list_, NumSlots) \cap pool_.held[t] = {}

IsPrefix(s, t) ==
    /\ Len(s) <= Len(t)
    /\ \A i \in 1..Len(s) : s[i] = t[i]

HeldValues(ring) == Cardinality({i \in 0..MASK : ring.buffer_[i] # NoItem})

RingUntouched(a, b) ==
    a.head_ = b.head_ /\ a.tail_ = b.tail_ /\ a.buffer_ = b.buffer_

\* C15: for a ring of C = 2^k slots, try_push returns false exactly when
\* the ring holds C-1 values and try_pop returns false exactly when it holds
\* none; a failed call leaves head, tail and the stored values unchanged.
C15_RefusesWhenFullOrEmpty ==
    \A ring \in {input_buffer_, output_buffer_} :
        /\ \A item \in EngineRequests :
              /\ ~try_push(ring, item).ok <=> HeldValues(ring) = Size - 1
              /\ ~try_push(ring, item).ok
                    => RingUntouched(try_push(ring, item).ring, ring)
        /\ ~try_pop(ring).ok <=> HeldValues(ring) = 0
        /\ ~try_pop(ring).ok => RingUntouched(try_pop(ring).ring, ring)

\* the ingress ring is full after its indices moved, and egress is empty
C15_Witness ==
    /\ input_buffer_.head_ # 0
    /\ HeldValues(input_buffer_) = Size - 1
    /\ HeldValues(output_buffer_) = 0
    /\ output_buffer_.head_ # 0

\* C16: size() is the number of successful pushes minus the number of
\* successful pops, also after the indices wrapped; 0 <= size() <=
\* capacity() = C-1; empty() holds exactly when size() = 0 and full()
\* exactly when size() = C-1.
C16_SizeIsPushesMinusPops ==
    /\ ring_size(ring_) = Len(ring_.pushed) - Len(ring_.popped)
    /\ 0 <= ring_size(ring_) /\ ring_size(ring_) <= ring_capacity
    /\ ring_capacity = Size - 1
    /\ ring_empty(ring_) <=> ring_size(ring_) = 0
    /\ ring_full(ring_) <=> ring_size(ring_) = Size - 1

\* the ring is full after the indices wrapped
C16_Witness ==
    /\ Len(ring_.popped) >= Size
    /\ ring_full(ring_)
    /\ ring_.tail_ < ring_.head_

(***************************************************************************)
(* Modify, Cancel and the book's own operations.                            *)
(***************************************************************************)
Queues(levels) == [p \in DOMAIN levels |-> levels[p].queue]

\* takers that sweep as much of a book as an order can
SweepingOrders ==
    {o \in IncomingOrders :
        o.quantity = MaxQty /\ ~is_ioc(o) /\ ~is_fok(o)}

Makers(trades) == [i \in 1..Len(trades) |-> trades[i].maker_order_id]

\* C21: a Modify of a resting order with new_quantity > 0 returns Modified,
\* sets the order's quantity and remaining_quantity to new_quantity, and
\* leaves every level queue as it was: the orders of a price are matched in
\* the order they had before the Modify.
C21_ModifyKeepsPosition ==
    \A request \in ModifyRequests :
        LET id == request.order.id
            book == BookOrNew(order_books_, request.order.symbol)
            out == process_modify_order(order_books_, order_allocator_, request)
            after == out.books[request.order.symbol]
        IN (id \in DOMAIN book.orders_ /\ request.new_quantity > 0)
           => /\ out.result.status = "Modified"
              /\ out.result.trades = <<>>
              /\ out.pool = order_allocator_
              /\ after.orders_ =
                    [book.orders_ EXCEPT ![id] =
                        [@ EXCEPT !.quantity = request.new_quantity,
                                  !.remaining_quantity = request.new_quantity]]
              /\ Queues(after.buy_levels_) = Queues(book.buy_levels_)
              /\ Queues(after.sell_levels_) = Queues(book.sell_levels_)
              /\ \A taker \in SweepingOrders :
                    LET makers == Makers(Matched(after, taker).trades)
                    IN \A i, j \in 1..Len(makers) :
                          i < j => Before(book, makers[i], makers[j])

\* the head of a level of two orders can be modified
C21_Witness ==
    \E book \in Books : \E level \in Levels(book) :
        /\ Len(level.queue) = 2
        /\ book.orders_[level.queue[1]].remaining_quantity
              < book.orders_[level.queue[1]].quantity

\* C22: a Modify of a resting order with new_quantity = 0 gives the books,
\* the pool and the result status a Cancel of that id gives.
C22_ModifyZeroIsCancel ==
    \A request \in ModifyRequests :
        LET book == BookOrNew(order_books_, request.order.symbol)
            modify == process_modify_order(order_books_, order_allocator_,
                                           request)
            cancel == process_cancel_order(order_books_, order_allocator_,
                          OrderRequest("Cancel", request.order, 0))
        IN (request.order.id \in DOMAIN book.orders_
              /\ request.new_quantity = 0)
           => /\ modify.books = cancel.books
              /\ modify.pool = cancel.pool
              /\ modify.result = cancel.result
              /\ modify.result.status = "Cancelled"
              /\ modify.pool = order_allocator_ + 1

\* an order rests behind another one at its price
C22_Witness ==
    \E book \in Books : \E level \in BuyLevels(book) :
        /\ Len(level.queue) = 2
        /\ level.price = get_best_bid(book)

\* the book and the pool after an Add and a Cancel of the same id
AddThenCancel(request) ==
    process_cancel_order(
        process_add_order(order_books_, order_allocator_, request).books,
        process_add_order(order_books_, order_allocator_, request).pool,
        OrderRequest("Cancel", request.order, 0))

RoundTrip(request) ==
    /\ AddThenCancel(request).books[request.order.symbol]
          = BookOrNew(order_books_, request.order.symbol)
    /\ AddThenCancel(request).pool = order_allocator_

FreshId(request) ==
    request.order.id
        \notin DOMAIN BookOrNew(order_books_, request.order.symbol).orders_

\* C23 as stated: an Add of an order with a fresh id followed by a Cancel of
\* the same id leaves the book (orders, remaining quantities, queues,
\* levels, totals, best prices and flags) and the pool's free slots as they
\* were before the Add.
C23_AddCancelRoundTrip ==
    \A request \in AddRequests : FreshId(request) => RoundTrip(request)

\* C23 amended: the same for an Add that fills nothing.
C23_AddCancelRoundTripNoFill ==
    \A request \in AddRequests :
        (FreshId(request)
           /\ Matched(BookOrNew(order_books_, request.order.symbol),
                      request.order).trades = <<>>)
        => RoundTrip(request)

\* an order with a fresh id can be added as the new best ask of a book
\* that has a best ask
C23_Witness ==
    \E request \in AddRequests :
        LET order == request.order
            book == BookOrNew(order_books_, order.symbol)
        IN /\ FreshId(request) /\ order_allocator_ > 0
           /\ is_sell(order) /\ order_rests(order) /\ ~is_market(order)
           /\ has_best_ask(book)
           /\ order.price < get_best_ask(book)

\* C25: all trades generated by one request are reported in that request's
\* MatchResult, and every reported trade has the result's order_id as taker,
\* the request's symbol, and a maker that rested in that symbol's book.
C25_TradesReportedTogether ==
    \A request \in AddRequests :
        LET order == request.order
            book == BookOrNew(order_books_, order.symbol)
            out == process_add_order(order_books_, order_allocator_, request)
        IN order_allocator_ > 0
           => /\ out.result.trades = Matched(book, order).trades
              /\ out.result.order_id = order.id
              /\ \A i \in 1..Len(out.result.trades) :
                    /\ out.result.trades[i].taker_order_id = order.id
                    /\ out.result.trades[i].symbol = order.symbol
                    /\ out.result.trades[i].maker_order_id
                          \in DOMAIN book.orders_

\* C27: every order resting in a book has 0 < remaining_quantity <=
\* quantity, after partial fills, Modify and Adds of quantity 0: an order
\* whose remaining quantity reached 0 is gone when its request returns.
C27_RestingRemainingPositive ==
    \A book \in Books : \A id \in DOMAIN book.orders_ :
        /\ 0 < book.orders_[id].remaining_quantity
        /\ book.orders_[id].remaining_quantity <= book.orders_[id].quantity

\* a partly filled order rests
C27_Witness ==
    \E book \in Books : \E id \in DOMAIN book.orders_ :
        /\ book.orders_[id].remaining_quantity < book.orders_[id].quantity
        /\ is_buy(book.orders_[id])

\* C28: remove_order(id) returns false and changes nothing when the id is
\* not in the book; otherwise it returns true, get_order(id) finds nothing,
\* the order count drops by one, no level queues the id, and a level left
\* empty is erased.
C28_RemoveOrder ==
    \A book \in Books : \A id \in Ids :
        LET removed == remove_order(book, id)
        IN IF id \notin DOMAIN book.orders_
           THEN ~removed.ok /\ removed.book = book
           ELSE /\ removed.ok
                /\ get_order(removed.book, id) = {}
                /\ get_order_count(removed.book) = get_order_count(book) - 1
                /\ Occurrences(removed.book, id) = {}
                /\ \A level \in Levels(removed.book) :
                      ~is_empty(level) /\ level.queue # <<>>

\* an order is alone at its price and another level of its side exists
C28_Witness ==
    \E book \in Books :
        /\ Cardinality(DOMAIN book.buy_levels_) = 2
        /\ \E p \in DOMAIN book.buy_levels_ :
              Len(book.buy_levels_[p].queue) = 1

\* C29: add_order(order) returns false when the id is in the book and then
\* leaves the id map, the level maps and the best prices unchanged;
\* otherwise it returns true and the order is the tail of the level at its
\* price on its side.
C29_AddOrder ==
    \A book \in Books : \A order \in IncomingOrders :
        LET added == add_order(book, order)
            before == IF is_buy(order) THEN book.buy_levels_
                      ELSE book.sell_levels_
            after == IF is_buy(order) THEN added.book.buy_levels_
                     ELSE added.book.sell_levels_
        IN IF order.id \in DOMAIN book.orders_
           THEN ~added.ok /\ added.book = book
           ELSE /\ added.ok
                /\ get_order(added.book, order.id) = {order}
                /\ order.price \in DOMAIN after
                /\ after[order.price].queue
                      = Append(LevelAt(before, order.price).queue, order.id)
                /\ \A p \in DOMAIN before :
                      p # order.price => after[p] = before[p]

\* an order with a fresh id can join a level that holds an order
C29_Witness ==
    \E book \in Books : \E order \in IncomingOrders :
        /\ order.id \notin DOMAIN book.orders_
        /\ is_sell(order)
        /\ LevelAt(book.sell_levels_, order.price).queue # <<>>

Depths == 0..(MaxPrice + 1)

\* what C30 says of one side: entries are the first min(depth, n) non-empty
\* levels, best price first, each with its level's total quantity
TopOfSide(entries, levels, nonEmpty, depth, better(_, _)) ==
    /\ Len(entries) = Min(depth, Cardinality(nonEmpty))
    /\ \A i \in 1..Len(entries) :
          /\ entries[i][1] \in nonEmpty
          /\ entries[i][2] = levels[entries[i][1]].total_quantity
    /\ \A i, j \in 1..Len(entries) :
          i < j => better(entries[i][1], entries[j][1])
    /\ \A p \in nonEmpty :
          (\A i \in 1..Len(entries) : entries[i][1] # p)
             => \A i \in 1..Len(entries) : better(entries[i][1], p)

\* C30: get_bid_levels(depth) returns min(depth, number of non-empty bid
\* levels) entries: the highest-priced non-empty bid levels in strictly
\* descending price order, each with its level's total quantity;
\* get_ask_levels(depth) the lowest-priced ask levels in ascending order.
C30_TopLevels ==
    \A book \in Books : \A depth \in Depths :
        /\ TopOfSide(get_bid_levels(book, depth), book.buy_levels_,
                     NonEmptyBidPrices(book), depth, LAMBDA a, b : a > b)
        /\ TopOfSide(get_ask_levels(book, depth), book.sell_levels_,
                     NonEmptyAskPrices(book), depth, LAMBDA a, b : a < b)

\* two ask levels rest, so a depth of 1 cuts the list
C30_Witness ==
    \E book \in Books :
        /\ Cardinality(NonEmptyAskPrices(book)) = 2
        /\ Len(get_ask_levels(book, 1)) = 1

(***************************************************************************)
(* The engine's channels.                                                   *)
(***************************************************************************)
\* the values a ring holds, oldest first
Contents(ring) ==
    [i \in 1..ring_size(ring) |-> ring.buffer_[BitAndMask(ring.head_ + (i - 1))]]

\* the handlers applied to a sequence of requests, one after the other
RECURSIVE Outcomes(_, _, _)
Outcomes(books, pool, requests) ==
    IF requests = <<>> THEN <<>>
    ELSE <<process_request(books, pool, Head(requests))>>
         \o Outcomes(process_request(books, pool, Head(requests)).books,
                     process_request(books, pool, Head(requests)).pool,
                     Tail(requests))

ResultsOf(outs) == [i \in 1..Len(outs) |-> outs[i].result]

\* a step that took the first Len(outs) requests out of ingress applied them
\* in that order and queued their results in that order behind the results
\* already waiting (the last result is missing when its push failed)
ProcessedInOrder(outs, egress, egressAfter) ==
    /\ order_books_' = outs[Len(outs)].books
    /\ order_allocator_' = outs[Len(outs)].pool
    /\ IsPrefix(egressAfter, egress \o ResultsOf(outs))
    /\ Len(egressAfter) >= Len(egress) + Len(outs) - 1

StepInOrder(ingress, ingressAfter, egress, egressAfter) ==
    IF Len(ingressAfter) < Len(ingress)
    THEN /\ ingressAfter
              = SubSeq(ingress, Len(ingress) - Len(ingressAfter) + 1, Len(ingress))
         /\ ProcessedInOrder(
                Outcomes(order_books_, order_allocator_,
                         SubSeq(ingress, 1, Len(ingress) - Len(ingressAfter))),
                egress, egressAfter)
    ELSE /\ IsPrefix(ingress, ingressAfter)
         /\ Len(ingressAfter) <= Len(ingress) + 1
         /\ egressAfter = egress \/ (egress # <<>> /\ egressAfter = Tail(egress))
         /\ order_books_' = order_books_ \/ order_books_' = EmptyMap
         /\ order_allocator_' = order_allocator_

Pushed ==
    IF ring_size(output_buffer_') > ring_size(output_buffer_)
    THEN ring_size(output_buffer_') - ring_size(output_buffer_)
    ELSE 0

\* C26 as stated: get_processed_orders() always equals the number of
\* results pushed to egress: every step adds to it exactly the results it
\* pushed, and a failed push adds nothing.
C26_ProcessedCountsPushes ==
    [][processed_orders_' = processed_orders_ + Pushed]_vars

\* C26 amended: the same, counted from construction or from the last
\* clear_all_books, which sets the count to 0.
C26_ProcessedCountsPushesSinceClear ==
    [][clear_all_books \/ processed_orders_' = processed_orders_ + Pushed]_vars

\* two Adds were applied since the books were last cleared and one is counted
C26_Witness ==
    /\ processed_orders_ = 1
    /\ get_total_orders(order_books_) = 2
    /\ ring_full(output_buffer_)

(***************************************************************************)
(* The pool's size.                                                         *)
(***************************************************************************)
\* C31: the pool is bounded by its configured size: with the backing
\* allocation succeeding, available_count() is never above capacity() =
\* pool_size, and with nothing allocated (as right after construction) it
\* equals capacity(), for every object size.
C31_PoolBounded ==
    (arena_.built /\ arena_.chunk) =>
        /\ available_count(arena_) <= capacity(arena_)
        /\ arena_.held = 0 => available_count(arena_) = capacity(arena_)

(***************************************************************************)
(* What an Add leaves in the book.                                          *)
(***************************************************************************)
\* C32: whenever the result of an Add has status Added, the order rests in
\* the addressed book afterwards: get_order(id) returns an order with the
\* request's side and price and its full quantity remaining, for every
\* order type, time-in-force flag, quantity and id.
C32_AddedRests ==
    \A request \in AddRequests :
        LET order == request.order
            out == process_add_order(order_books_, order_allocator_, request)
        IN out.result.status = "Added"
           => \E resting \in get_order(out.books[order.symbol], order.id) :
                 /\ resting.side = order.side
                 /\ resting.price = order.price
                 /\ resting.remaining_quantity = order.quantity

\* the levels and the best price of the side an order of this side rests on
OwnLevels(book, side) ==
    IF side = "Buy" THEN book.buy_levels_ ELSE book.sell_levels_
OwnBest(book, side) ==
    IF side = "Buy" THEN <<has_best_bid(book), get_best_bid(book)>>
    ELSE <<has_best_ask(book), get_best_ask(book)>>

\* C33: only plain Limit orders are inserted into a book: after an Add of a
\* Market order (with an id that is not resting), whatever its residual,
\* the order does not rest, its side has no level it did not have before,
\* and the best price of its side is what it was.
C33_MarketNeverRests ==
    \A request \in AddRequests :
        LET order == request.order
            book == BookOrNew(order_books_, order.symbol)
            after == process_add_order(order_books_, order_allocator_,
                                       request).books[order.symbol]
        IN (is_market(order) /\ FreshId(request))
           => /\ get_order(after, order.id) = {}
              /\ Occurrences(after, order.id) = {}
              /\ DOMAIN OwnLevels(after, order.side)
                    \subseteq DOMAIN OwnLevels(book, order.side)
              /\ OwnBest(after, order.side) = OwnBest(book, order.side)

(***************************************************************************)
(* Symbols.                                                                 *)
(***************************************************************************)
\* every request over two symbols
TwoSymbolRequests ==
    {OrderRequest("Add", Order(id, sym, p, q, sd, ty, tif[1], tif[2]), 0) :
        id \in Ids, sym \in TwoSymbols, p \in Prices, q \in Quantities,
        sd \in Sides, ty \in OrderTypes, tif \in TimeInForce}
    \cup {OrderRequest("Cancel", KeyOrder(id, sym), 0) :
             id \in Ids, sym \in TwoSymbols}
    \cup {OrderRequest("Modify", KeyOrder(id, sym), q) :
             id \in Ids, sym \in TwoSymbols, q \in Quantities}

\* C34: books are isolated by symbol: a request addressed to symbol s
\* leaves every book of another symbol as it was (orders, levels, totals,
\* best prices) and creates no book of another symbol, and the resting
\* orders it trades with rested under s.
C34_SymbolsIsolated ==
    \A request \in TwoSymbolRequests :
        LET s == request.order.symbol
            out == process_request(order_books_, order_allocator_, request)
        IN /\ \A other \in TwoSymbols \ {s} :
                 IF other \in DOMAIN order_books_
                 THEN /\ other \in DOMAIN out.books
                      /\ out.books[other] = order_books_[other]
                 ELSE other \notin DOMAIN out.books
           /\ \A i \in 1..Len(out.result.trades) :
                 Makers(out.result.trades)[i]
                    \in DOMAIN BookOrNew(order_books_, s).orders_

\* one id rests under both symbols, as a bid under symbol 1 and as an ask
\* under symbol 2
C34_Witness ==
    /\ DOMAIN order_books_ = TwoSymbols
    /\ \E id \in Ids :
          /\ id \in DOMAIN order_books_[1].orders_
          /\ id \in DOMAIN order_books_[2].orders_
          /\ order_books_[1].orders_[id].side = "Buy"
          /\ order_books_[2].orders_[id].side = "Sell"

(***************************************************************************)
(* Termination of process_orders.                                           *)
(***************************************************************************)
\* a pass of the matching loop that stays in the loop emitted one trade of
\* positive quantity that exhausted the incoming order or removed its maker
LoopPassProgress ==
    (call_.pc = "match" /\ call_'.pc = "match" /\ call_' # call_)
       => LET m == call_.m
              n == call_'.m
              trade == n.trades[Len(n.trades)]
          IN /\ Len(n.trades) = Len(m.trades) + 1
             /\ trade.quantity > 0
             /\ trade.maker_order_id \in OpposingOrders(m.book, m.order)
             /\ \/ n.order.remaining_quantity = 0
                \/ trade.maker_order_id \notin DOMAIN n.book.orders_

\* a pass of the drain loop pops one request, or returns when ingress is
\* empty; process_orders returns only there or when a push to egress failed
DrainPassProgress ==
    /\ (call_.pc = "drain" /\ call_' # call_)
          => IF ring_empty(input_buffer_)
             THEN call_'.pc = "idle" /\ input_buffer_' = input_buffer_
             ELSE /\ ring_size(input_buffer_') = ring_size(input_buffer_) - 1
                  /\ call_'.pc \in {"match", "push"}
    /\ (call_.pc # "idle" /\ call_'.pc = "idle")
          => \/ call_.pc = "drain" /\ ring_empty(input_buffer_)
             \/ /\ call_.pc = "push"
                /\ ring_full(output_buffer_)
                /\ processed_orders_' = processed_orders_

\* the passes that emitted a trade are at most the opposing orders that
\* rested when the loop was entered (one more pass leaves the loop)
PassesBounded ==
    call_.pc = "match" => call_.passes <= call_.opposing

\* C35: with no producer pushing concurrently, every call of process_orders
\* terminates: each pass of the matching loop emits a trade of strictly
\* positive quantity that exhausts the incoming order or removes a resting
\* order, the loop makes at most (resting opposing orders + 1) passes per
\* request, and the drain loop pops one request per pass until ingress is
\* empty or a push to egress fails.
C35_ProcessOrdersTerminates ==
    /\ [][LoopPassProgress /\ DrainPassProgress]_vars
    /\ []PassesBounded
    /\ (call_.pc # "idle") ~> (call_.pc = "idle")

\* the incoming order traded with two resting orders in one matching loop
C35_Witness ==
    /\ call_.pc = "match"
    /\ call_.passes = 2
    /\ Len(call_.m.trades) = 2

====
